---------------------------- MODULE Spec2Model ----------------------------
(***************************************************************************)
(* Model of tools/sckan_connectivity.py: the load / extract / restore /    *)
(* info commands run against a knowledge store (an SQLite database with    *)
(* the tables knowledge, labels, publications and connectivity_nodes).     *)
(*                                                                         *)
(* It also holds the flatmap server's map_index endpoint                   *)
(* (mapserver/server/flatmap.py), which has a specification of its own,    *)
(* FlatmapSpec.                                                            *)
(*                                                                         *)
(* The store is seen twice: `db` is what is committed on disk, `cur` is    *)
(* what the connection of the running command sees (its uncommitted        *)
(* changes included).  A commit copies cur to db; a command that dies      *)
(* (exception, exit, interrupt) loses cur.                                 *)
(***************************************************************************)
EXTENDS Integers, Sequences, FiniteSets, TLC

VARIABLES
    db,         \* the committed contents of the knowledge store
    cur,        \* the running command's view of the store
    pc,         \* where the running command is ("idle": no command runs)
    op,         \* the running (or last) command's arguments and locals;
                \* op.arg: the snapshot read (restore) or fetched (load)
    todo,       \* the paths a load has still to iterate
    files,      \* <store-directory>/<source>.json, per source
    result,     \* how the last command ended
    pre,        \* db when the running (or last) command started
    prefiles,   \* files when the running (or last) command started
    written,    \* sources in the order commands wrote them, latest first
    nops,       \* commands started so far
    flatmap_root,   \* the map directories under settings['FLATMAP_ROOT']
    response        \* the last response of the flatmap server

\* the variables of the sckan_connectivity commands, and of the server
storeVars == <<db, cur, pc, op, todo, files, result, pre, prefiles, written,
               nops>>
serverVars == <<flatmap_root, response>>

vars == <<storeVars, serverVars>>

-----------------------------------------------------------------------------
(* Bounds of the model. *)

\* the longest `knowledge` list of a snapshot offered to restore
MaxRecords == 2
\* the number of commands that write (load, restore, extract) run one
\* after the other
MaxOps == 2

-----------------------------------------------------------------------------
(* Values. *)

None == "None"

Sources == {"A", "B"}

\* a connectivity node as it stands in JSON: [term, [qualifier, ...]]
n1 == <<"UBERON:1", <<>> >>
n2 == <<"UBERON:2", <<"qualifierA">> >>

\* a JSON value of the `connectivity` field: a list of edges, or not a list
JList(items) == [type |-> "list", val |-> items]
JInt         == [type |-> "int",  val |-> <<>>]

\* the records a snapshot's `knowledge` list is made of
SnapshotRecords ==
    { [id |-> "e1", label |-> "L1",
       connectivity |-> JList(<< <<n1, n2>>, <<n2, n1>> >>)],
      [id |-> "e1", label |-> "L1", references |-> <<"PMID:1">>,
       connectivity |-> JList(<< <<n1, n2>> >>)],
      [id |-> "e2", connectivity |-> JList(<< <<n1>> >>)],
      [id |-> "e2", connectivity |-> JInt],
      [id |-> "e1", label |-> "L2"] }

SeqsUpTo(S, n) == UNION { [1..k -> S] : k \in 0..n }


\* json.dumps / json.loads: the text of a JSON value, and the value of a text
Dumps(v) == [json |-> v]
Loads(t) == t.json

-----------------------------------------------------------------------------
(* Tables.  knowledge is keyed by <<source, entity>> (its unique index);    *)
(* labels, publications and connectivity_nodes are bags of rows (row |->    *)
(* number of copies), labels with a unique index on the entity.  rowids     *)
(* lists the keys of knowledge in the order of their rowids, which is the   *)
(* order in which the rows were inserted.                                   *)

Put(f, k, v) == [x \in (DOMAIN f) \cup {k} |-> IF x = k THEN v ELSE f[x]]
Restrict(f, K) == [x \in K |-> f[x]]

BagAdd(b, row) ==
    IF row \in DOMAIN b THEN [b EXCEPT ![row] = @ + 1] ELSE Put(b, row, 1)

RECURSIVE BagAddAll(_, _)
BagAddAll(b, rows) ==
    IF rows = <<>> THEN b ELSE BagAddAll(BagAdd(b, Head(rows)), Tail(rows))

NoRows == <<>>

EmptyStore ==
    [knowledge |-> NoRows, labels |-> NoRows, publications |-> NoRows,
     connectivity_nodes |-> NoRows, order |-> <<>>, rowids |-> <<>>]

\* the rows of one source
KnowledgeOf(st, source) ==
    Restrict(st.knowledge, {k \in DOMAIN st.knowledge : k[1] = source})
NodesOf(st, source) ==
    Restrict(st.connectivity_nodes,
             {r \in DOMAIN st.connectivity_nodes : r[1] = source})
PublicationsOf(st, source) ==
    Restrict(st.publications, {r \in DOMAIN st.publications : r[1] = source})

\* the recency order of the sources: `source` has just been written / emptied
Touch(order, source) ==
    <<source>> \o SelectSeq(order, LAMBDA s : s # source)
Forget(order, source) == SelectSeq(order, LAMBDA s : s # source)

\* 'delete from knowledge where source=?'
DeleteKnowledge(st, source) ==
    [st EXCEPT !.knowledge =
                   Restrict(@, {k \in DOMAIN @ : k[1] # source}),
               !.order = Forget(@, source),
               !.rowids = SelectSeq(@, LAMBDA k : k[1] # source)]

\* 'delete from connectivity_nodes where source=?'
DeleteNodes(st, source) ==
    [st EXCEPT !.connectivity_nodes =
                   Restrict(@, {r \in DOMAIN @ : r[1] # source})]

\* 'delete from publications where source=? and entity=?'
DeletePublications(st, source, entity) ==
    [st EXCEPT !.publications =
        Restrict(@, {r \in DOMAIN @ : ~(r[1] = source /\ r[2] = entity)})]

\* KnowledgeStore.clean_connectivity(source): every row of the source goes,
\* in the caller's transaction
CleanConnectivity(st, source) ==
    LET s1 == DeleteNodes(DeleteKnowledge(st, source), source)
    IN [s1 EXCEPT !.publications =
                      Restrict(@, {r \in DOMAIN @ : r[1] # source})]

\* KnowledgeStore.knowledge_sources(): the sources that have knowledge rows,
\* the most recently written first
KnowledgeSources(st) == st.order

-----------------------------------------------------------------------------
(* Statements of restore.  A statement yields [ok, err, st]: whether it ran, *)
(* the exception it raised, and the connection's view after it.            *)

Ok(st)        == [ok |-> TRUE,  err |-> "",  st |-> st]
Raise(err, st) == [ok |-> FALSE, err |-> err, st |-> st]

\* InsertKnowledge on a table without the unique index
InsertKnowledgeNoIndex(st, source, entity, text) ==
    Ok([st EXCEPT !.knowledge = Put(@, <<source, entity>>, text),
                  !.order = Touch(@, source),
                  !.rowids = Append(@, <<source, entity>>)])

\* 'insert into knowledge (source, entity, knowledge) values (?, ?, ?)':
\* the unique index on (source, entity) refuses a second row
InsertKnowledge(st, source, entity, text) ==
    IF <<source, entity>> \in DOMAIN st.knowledge
    THEN Raise("IntegrityError", st)
    ELSE Ok([st EXCEPT !.knowledge = Put(@, <<source, entity>>, text),
                       !.order = Touch(@, source),
                       !.rowids = Append(@, <<source, entity>>)])

\* ReplaceLabel on a table without the unique index: a plain insert
ReplaceLabelNoIndex(st, entity, label) ==
    [st EXCEPT !.labels = BagAdd(@, <<entity, label>>)]

\* 'replace into labels values (?, ?)': the row that conflicts on the unique
\* index (the entity's) goes, and the new row is inserted
ReplaceLabel(st, entity, label) ==
    [st EXCEPT !.labels =
        BagAdd(Restrict(@, {r \in DOMAIN @ : r[1] # entity}),
               <<entity, label>>)]

\* 'insert into publications(source, entity, publication) values (?, ?)':
\* the columns the statement names and the values it supplies
PublicationColumns == 3
PublicationValues  == 2

\* executemany of that statement over the references: it is prepared before
\* the first row is bound, and cannot be when the counts differ
InsertPublications(st, source, entity, references) ==
    IF PublicationValues # PublicationColumns
    THEN Raise("OperationalError", st)
    ELSE Ok([st EXCEPT !.publications =
                BagAddAll(@, [i \in 1..Len(references) |->
                                 <<source, entity, references[i]>>])])

\* for edge in connectivity: for node in edge: the nodes in iteration order
RECURSIVE Flatten(_)
Flatten(edges) ==
    IF edges = <<>> THEN <<>> ELSE Head(edges) \o Flatten(Tail(edges))

\* the rows 'insert into connectivity_nodes (source, node, path)' adds for
\* the nodes, skipping those in seen_nodes
RECURSIVE NodeRows(_, _, _, _)
NodeRows(nodes, seen_nodes, source, entity) ==
    IF nodes = <<>> THEN <<>>
    ELSE LET node == <<Head(nodes)[1], Head(nodes)[2]>>
         IN IF node \in seen_nodes
            THEN NodeRows(Tail(nodes), seen_nodes, source, entity)
            ELSE <<<<source, Dumps(node), entity>>>>
                 \o NodeRows(Tail(nodes), seen_nodes \cup {node},
                             source, entity)

\* lines 134-142: the connectivity of one record, with a seen_nodes set of
\* its own
InsertConnectivity(st, source, entity, connectivity) ==
    IF connectivity.type # "list"
    THEN Raise("TypeError", st)
    ELSE Ok([st EXCEPT !.connectivity_nodes =
                BagAddAll(@, NodeRows(Flatten(connectivity.val), {},
                                      source, entity))])

\* RestoreDeletes without lines 119 and 121: only the knowledge rows go
RestoreDeletesKnowledgeOnly(st, source) == DeleteKnowledge(st, source)

\* RestoreDeletes without line 119: clean_connectivity is not called
RestoreDeletesNoClean(st, source) ==
    DeleteNodes(DeleteKnowledge(st, source), source)

\* lines 118-121: the source's old rows go
RestoreDeletes(st, source) ==
    DeleteNodes(DeleteKnowledge(CleanConnectivity(st, source), source),
                source)

\* lines 123-142: one record of the snapshot
RestoreRecord(st, source, knowledge) ==
    LET entity == knowledge.id
        r1 == InsertKnowledge(st, source, entity, Dumps(knowledge))
        s2 == IF "label" \in DOMAIN knowledge
              THEN ReplaceLabel(r1.st, entity, knowledge.label)
              ELSE r1.st
        r3 == IF "references" \in DOMAIN knowledge
              THEN InsertPublications(
                       DeletePublications(s2, source, entity),
                       source, entity, knowledge.references)
              ELSE Ok(s2)
    IN IF ~r1.ok THEN r1
       ELSE IF ~r3.ok THEN r3
       ELSE IF "connectivity" \in DOMAIN knowledge
            THEN InsertConnectivity(r3.st, source, entity,
                                    knowledge.connectivity)
            ELSE r3

\* lines 118-143 run to the end on a connection that sees st: the committed
\* store afterwards (st itself when an exception ends the command)
RECURSIVE RestoreRecords(_, _, _)
RestoreRecords(st, source, records) ==
    IF records = <<>> THEN Ok(st)
    ELSE LET r == RestoreRecord(st, source, Head(records))
         IN IF r.ok THEN RestoreRecords(r.st, source, Tail(records)) ELSE r

Restored(st, snapshot) ==
    IF ~({"source", "knowledge"} \subseteq DOMAIN snapshot) THEN st
    ELSE LET r == RestoreRecords(RestoreDeletes(st, snapshot.source),
                                 snapshot.source, snapshot.knowledge)
         IN IF r.ok THEN r.st ELSE st

-----------------------------------------------------------------------------
(* The remote and the store's side of load. *)

\* the path ids the remote may list, in the order a select returns them
Entities == <<"e1", "e2">>

Paths == {Entities[i] : i \in 1..Len(Entities)}

\* the path lists the remote may serve: path ids, each once
PathLists ==
    { p \in SeqsUpTo(Paths, Cardinality(Paths)) :
        \A i, j \in 1..Len(p) : i # j => p[i] # p[j] }

\* the knowledge the remote may hold for a path
RemoteKnowledge(path) ==
    IF path = "e1"
    THEN { [label |-> "L1", references |-> <<"PMID:1">>],
           [id |-> "e1", label |-> "L2",
            connectivity |-> JList(<< <<n1, n2>> >>)] }
    ELSE { [id |-> "e2", connectivity |-> JList(<< <<n1>> >>)] }

\* connectivity nodes of a load: a node the source already has is not
\* inserted again
RECURSIVE UpsertNodes(_, _, _, _)
UpsertNodes(st, source, entity, nodes) ==
    IF nodes = <<>> THEN st
    ELSE LET row == <<source, Dumps(<<Head(nodes)[1], Head(nodes)[2]>>),
                      entity>>
             have == \E r \in DOMAIN st.connectivity_nodes :
                         r[1] = source /\ r[2] = row[2]
             s1 == IF have THEN st
                   ELSE [st EXCEPT !.connectivity_nodes = BagAdd(@, row)]
         IN UpsertNodes(s1, source, entity, Tail(nodes))

\* KnowledgeStore.entity_knowledge(path, source) once the remote has
\* answered with `knowledge`: the record is upserted, its label, its
\* publications (replaced as a set) and its connectivity nodes with it
EntityKnowledge(st, source, entity, knowledge) ==
    LET s1 == [st EXCEPT !.knowledge =
                             Put(@, <<source, entity>>, Dumps(knowledge)),
                         !.order = Touch(@, source),
                         !.rowids =
                             Append(SelectSeq(@, LAMBDA k :
                                                 k # <<source, entity>>),
                                    <<source, entity>>)]
        s2 == IF "label" \in DOMAIN knowledge
              THEN ReplaceLabel(s1, entity, knowledge.label)
              ELSE s1
        references == IF "references" \in DOMAIN knowledge
                      THEN knowledge.references ELSE <<>>
        s3 == [DeletePublications(s2, source, entity) EXCEPT
                  !.publications =
                      BagAddAll(@, [i \in 1..Len(references) |->
                                       <<source, entity, references[i]>>])]
    IN IF "connectivity" \in DOMAIN knowledge
       THEN UpsertNodes(s3, source, entity,
                        Flatten(knowledge.connectivity.val))
       ELSE s3

\* StoreSource without the lookup: a source asked for is taken as it is
StoreSourceAsAsked(st, knowledge_source) ==
    IF knowledge_source # None THEN knowledge_source
    ELSE IF KnowledgeSources(st) = <<>> THEN None
    ELSE Head(KnowledgeSources(st))

\* KnowledgeStore.source of a store opened, without the remote, for
\* `knowledge_source`: the source asked for when the store knows it, the
\* most recent one when none is asked for, and None when there is no match
StoreSource(st, knowledge_source) ==
    IF knowledge_source = None
    THEN IF KnowledgeSources(st) = <<>> THEN None
         ELSE Head(KnowledgeSources(st))
    ELSE IF \E i \in 1..Len(KnowledgeSources(st)) :
                KnowledgeSources(st)[i] = knowledge_source
         THEN knowledge_source
         ELSE None

\* LoadDeletes without the `where source=?` of its statements
LoadDeletesEverySource(st, source) ==
    [st EXCEPT !.knowledge = NoRows, !.connectivity_nodes = NoRows,
               !.order = <<>>, !.rowids = <<>>]

\* lines 53-54 of load: the source's old rows go
LoadDeletes(st, source) == DeleteNodes(DeleteKnowledge(st, source), source)

-----------------------------------------------------------------------------
(* extract and info, as functions of the committed store. *)

\* the select of line 96 run through the unique index of knowledge: the
\* entities of the source's rows in the order of the index
IndexSearch(st, source) ==
    SelectSeq(Entities, LAMBDA e : <<source, e>> \in DOMAIN st.knowledge)

\* the select of line 96 run as a scan of the table: the entities of the
\* source's rows in the order of their rowids
TableScan(st, source) ==
    LET keys == SelectSeq(st.rowids, LAMBDA k : k[1] = source)
    IN [i \in 1..Len(keys) |-> keys[i][2]]

\* line 96, 'select entity, knowledge from knowledge where source=?': the
\* statement has no ORDER BY, so the rows come in the order of whichever
\* plan the engine runs
SelectKnowledge(st, source) ==
    {IndexSearch(st, source), TableScan(st, source)}

\* SavedKnowledge without line 98: the payloads as they are stored
SavedKnowledgeAsStored(st, source, rows) ==
    [source |-> source,
     knowledge |->
        [i \in 1..Len(rows) |-> Loads(st.knowledge[<<source, rows[i]>>])]]

\* lines 92-99: a record per row the select returned, its id injected
SavedKnowledge(st, source, rows) ==
    [source |-> source,
     knowledge |->
        [i \in 1..Len(rows) |->
            LET knowledge == Loads(st.knowledge[<<source, rows[i]>>])
            IN Put(knowledge, "id", rows[i])]]

\* Printed with the sources sorted by id
PrintedSorted(st) ==
    LET have == {KnowledgeSources(st)[i] :
                    i \in 1..Len(KnowledgeSources(st))}
    IN SelectSeq(<<"A", "B">>, LAMBDA x : x \in have)

\* lines 155-156 of info: the sources, printed in the store's order
Printed(st) == KnowledgeSources(st)

-----------------------------------------------------------------------------
(* The commands.  A step of a command is a function of the committed store  *)
(* and of the connection's view; the actions below apply these functions.   *)

\* KnowledgeStore(..., use_sckan=True): the remote is asked which source it
\* serves; an unreachable remote is an error
OpenWithSckan(reachable, source) ==
    IF reachable THEN [error |-> "", source |-> source]
    ELSE [error |-> "RemoteUnavailableError", source |-> None]

\* LoadOpen with lines 53-55 run first, for the source asked for
LoadOpenCleanFirst(committed, scicrunch_key, reachable, source) ==
    [status |-> IF scicrunch_key = None THEN "exit 1"
                ELSE IF ~reachable THEN "RemoteUnavailableError"
                ELSE "running",
     committed |-> LoadDeletes(committed, source),
     wrote |-> TRUE]

\* load, lines 35-51: nothing is executed on the store before the source is
\* resolved
LoadOpen(committed, scicrunch_key, reachable, source) ==
    IF scicrunch_key = None
    THEN [status |-> "exit 1", committed |-> committed, wrote |-> FALSE]
    ELSE IF OpenWithSckan(reachable, source).error # ""
    THEN [status |-> OpenWithSckan(reachable, source).error,
          committed |-> committed, wrote |-> FALSE]
    ELSE [status |-> "running", committed |-> committed, wrote |-> FALSE]

\* load, lines 53-55: the deletes, and the commit that follows them
LoadClean(view, source) ==
    [view |-> LoadDeletes(view, source),
     committed |-> LoadDeletes(view, source)]

\* KnowledgeStore.close(): the connection's transaction is committed
StoreClose(committed, view) == view

\* ExtractOpen with the deletes of load run on the store it opened
ExtractOpenCleaning(committed, source) ==
    [source |-> StoreSource(committed, source),
     committed |-> LoadDeletes(committed, source),
     wrote |-> TRUE]

\* ExtractOpen for a store that takes a source asked for as it is
ExtractOpenAsAsked(committed, source) ==
    [source |-> StoreSourceAsAsked(committed, source),
     committed |-> committed,
     wrote |-> FALSE]

\* extract, lines 80-90: the store is opened read-only, for the source asked
\* for, and tells the source it resolved; nothing is executed on it
ExtractOpen(committed, source) ==
    [source |-> StoreSource(committed, source),
     committed |-> committed,
     wrote |-> FALSE]

\* LoadFinish without the commit of store.close()
LoadFinishUncommitted(committed, view, save_json) ==
    [committed |-> committed, extract |-> save_json]

\* load, lines 68-75: store.close() ends the iteration, and extract is
\* called when args.save_json is set
LoadFinish(committed, view, save_json) ==
    [committed |-> StoreClose(committed, view), extract |-> save_json]

\* RestoreTurn with the commit of line 143 inside the loop
RestoreTurnCommitting(committed, view, source, knowledge) ==
    LET r == RestoreRecord(view, source, knowledge)
    IN [ok |-> r.ok, err |-> r.err, view |-> r.st,
        committed |-> IF r.ok THEN r.st ELSE committed]

\* restore, lines 122-142: one turn of the loop commits nothing
RestoreTurn(committed, view, source, knowledge) ==
    LET r == RestoreRecord(view, source, knowledge)
    IN [ok |-> r.ok, err |-> r.err, view |-> r.st, committed |-> committed]

-----------------------------------------------------------------------------
(* The flatmap server: the files of the map directories, and map_index.      *)

\* the map ids a request may name, and the id a map's index.json gives
Maps == {"m1", "m2"}
MapId == "a"

\* a file of a map directory: <map>/<dir>/<stem>.<ext>
File(dir, stem, ext) == [dir |-> dir, stem |-> stem, ext |-> ext]

\* index.get('version', 1.0), and the version from which a map's metadata
\* names the map (line 100), in tenths
DefaultVersion == 10
MetadataVersion == 13
Versions == {DefaultVersion, 12, MetadataVersion}

\* the metadata of a map's index.mbtiles: the keys read by the listing; a
\* key that is absent is None (id) or the empty sequence (uuid, which is
\* otherwise its components between the colons); source may also be
\* unreadable (the tile database cannot be read)
NoUuid == <<>>
Uuid(name) == <<"urn", name>>
NoMetadata == [id |-> None, uuid |-> NoUuid, source |-> "src"]
Metadata ==
    [id : {None} \cup Maps, uuid : {NoUuid} \cup {Uuid(m) : m \in Maps},
     source : {"src"}]
OldMetadata ==
    [id : {None}, uuid : {NoUuid}, source : {"src", None, "unreadable"}]

\* the files of a map directory that an endpoint looks for
IndexFiles ==
    {File("", "index", "json"), File("", MapId, "svg"),
     File("images", MapId, "svg")}
JsonFiles == {File("", "style", "json"), File("", "markers", "json")}
ListingFiles ==
    {File("", "index", "json"), File("", "index", "mbtiles"),
     File("", ".map_making", "")}

\* an entry of the flatmap root: whether it is a directory, the files that
\* exist in it, what index.json holds when it exists, and the metadata of
\* index.mbtiles when it exists
MapDir(F, version, metadata) ==
    [is_dir |-> TRUE, files |-> F,
     index |-> [id |-> MapId, version |-> version], metadata |-> metadata]

NoMap == MapDir({}, DefaultVersion, NoMetadata)

NotADirectory == [NoMap EXCEPT !.is_dir = FALSE]

\* the entries the root may hold: each endpoint's files in every
\* combination, and for the listing every version and metadata of a map
\* that has index.json and index.mbtiles
MapDirs ==
    { MapDir(F, DefaultVersion, NoMetadata) :
        F \in SUBSET IndexFiles \cup SUBSET JsonFiles \cup SUBSET ListingFiles }
    \cup UNION { { MapDir(F, version, metadata) :
                     F \in {G \in SUBSET ListingFiles :
                               {File("", "index", "json"),
                                File("", "index", "mbtiles")} \subseteq G},
                     metadata \in IF version >= MetadataVersion
                                  THEN Metadata ELSE OldMetadata } :
                   version \in Versions }
    \cup { NotADirectory }

\* pathlib.Path.exists()
Exists(map, file) == file \in map.files

\* the responses of an endpoint: status, media type and content, which is
\* of some kind and comes from some file's content (or from no file);
\* `listed` is the list the maps listing answers with
NoPath == File("", "", "")

Respond(status, media_type, kind, file) ==
    [status |-> status, media_type |-> media_type,
     content |-> [kind |-> kind, file |-> file], listed |-> <<>>]

NoResponse ==
    [endpoint |-> "none", map_uuid |-> None, accepts_svg |-> FALSE,
     sent |-> Respond(0, "", "none", NoPath)]

\* open(svg_file) and fp.read(): the file's content, or the exception
ReadSvg(map, svg_file) ==
    IF Exists(map, svg_file)
    THEN Respond(200, "image/svg+xml", "svg", svg_file)
    ELSE Respond(500, "", "FileNotFoundError", svg_file)

\* map_index, lines 166-178; accepts_svg is
\* request.accept.accepts('image/svg+xml')
map_index(root, map_uuid, accepts_svg) ==
    LET map == root[map_uuid]
        index_file == File("", "index", "json")
        svg_file == File("", map.index.id, "svg")
        images_svg_file == File("images", map.index.id, "svg")
        svg_file_2 == IF ~Exists(map, svg_file) THEN images_svg_file
                      ELSE svg_file
    IN IF ~Exists(map, index_file)
       THEN Respond(404, "application/json", "Missing map index", NoPath)
       ELSE IF accepts_svg /\ ~Exists(map, svg_file_2)
            THEN ReadSvg(map, svg_file_2)
            ELSE Respond(200, "application/json", "index", index_file)

\* utils.read_json(path): the parsed content of the file, or an error
\* response when the file is missing
read_json(map, path) ==
    IF Exists(map, path)
    THEN Respond(200, "application/json", "json", path)
    ELSE Respond(404, "application/json", "Missing JSON file", path)

\* a handler that ends without a return statement answers with None
ReturnsNone == Respond(200, "application/json", "None", NoPath)

\* map_style: line 197 and the return statement of line 202, which the
\* indentation makes the end of map_style's body
map_style(root, map_uuid) ==
    LET path == File("", "style", "json")
    IN read_json(root[map_uuid], path)

\* map_markers, lines 204-205: the body is the assignment of path alone
map_markers(root, map_uuid) ==
    LET path == File("", "markers", "json")
    IN ReturnsNone

\* the answer of the maps listing: the list of the flatmaps found
Listing(list) ==
    [Respond(200, "application/json", "maps", NoPath) EXCEPT !.listed = list]

\* metadata['uuid'].split(':')[-1]
LastComponent(uuid) == uuid[Len(uuid)]

\* the test of lines 94-95 with the sentinel left out
AvailableWhileMaking(flatmap_dir) ==
    /\ flatmap_dir.is_dir
    /\ Exists(flatmap_dir, File("", "index", "json"))
    /\ Exists(flatmap_dir, File("", "index", "mbtiles"))

\* lines 91-95: the entry is a directory, no map is being made in it
\* (MAKER_SENTINEL is '.map_making'), and it has index.json and
\* index.mbtiles
Available(flatmap_dir) ==
    /\ flatmap_dir.is_dir
    /\ ~Exists(flatmap_dir, File("", ".map_making", ""))
    /\ Exists(flatmap_dir, File("", "index", "json"))
    /\ Exists(flatmap_dir, File("", "index", "mbtiles"))

\* lines 102-103: the directory's name is neither the metadata's id nor
\* the last component of the metadata's uuid
IdMismatch(name, metadata) ==
    /\ (metadata.id = None \/ name # metadata.id)
    /\ (metadata.uuid = NoUuid \/ name # LastComponent(metadata.uuid))

\* a flatmap of the list: its id and uuid (lines 106-115, 137-140), and
\* the directory it was made from
Flatmap(name, id, uuid) == [dir |-> name, id |-> id, uuid |-> uuid]

\* maps, lines 90-148 (the root is a directory): the entries of the root
\* are visited in the order iterdir() gives them; flatmap_list is the list
\* so far.  A map with a matching uuid and no id in its metadata makes
\* line 107 raise KeyError; a tile database that cannot be read makes
\* line 134 raise NotFoundException
RECURSIVE maps(_, _, _)
maps(root, dirs, flatmap_list) ==
    IF dirs = <<>> THEN Listing(flatmap_list)
    ELSE
    LET name == Head(dirs)
        flatmap_dir == root[name]
        version == flatmap_dir.index.version
        metadata == flatmap_dir.metadata
    IN IF ~Available(flatmap_dir)
       THEN maps(root, Tail(dirs), flatmap_list)
       ELSE IF version >= MetadataVersion
       THEN IF IdMismatch(name, metadata)
            THEN maps(root, Tail(dirs), flatmap_list)
            ELSE IF metadata.id = None
            THEN Respond(500, "", "KeyError", NoPath)
            ELSE maps(root, Tail(dirs),
                      Append(flatmap_list,
                             Flatmap(name, metadata.id, metadata.uuid)))
       ELSE IF metadata.source = "unreadable"
            THEN Respond(404, "application/json",
                         "Cannot read tile database",
                         File("", "index", "mbtiles"))
            ELSE IF metadata.source = None
            THEN maps(root, Tail(dirs), flatmap_list)
            ELSE maps(root, Tail(dirs),
                      Append(flatmap_list, Flatmap(name, name, NoUuid)))

\* the orders in which root_path.iterdir() may give the entries
IterDir ==
    { dirs \in [1..Cardinality(Maps) -> Maps] :
        \A i, j \in DOMAIN dirs : i # j => dirs[i] # dirs[j] }

-----------------------------------------------------------------------------
(* The commands' state. *)

\* no snapshot file
NoFile == [source |-> None, knowledge |-> <<>>]

\* a store directory without snapshot files
NoFiles == [s \in Sources |-> NoFile]

NoOp == [name |-> "none", source |-> None, arg |-> NoFile,
         save_json |-> FALSE, count |-> 0, wrote |-> FALSE]

Ended(name, status, count) ==
    [name |-> name, status |-> status, count |-> count, out |-> <<>>]

Init ==
    /\ db = EmptyStore
    /\ cur = EmptyStore
    /\ pc = "idle"
    /\ op = NoOp
    /\ todo = <<>>
    /\ files = NoFiles
    /\ result = Ended("none", "none", 0)
    /\ pre = EmptyStore
    /\ prefiles = NoFiles
    /\ written = <<>>
    /\ nops = 0
    /\ flatmap_root = [m \in Maps |-> NoMap]
    /\ response = NoResponse

\* the snapshots restore may be given, before any record of the `knowledge`
\* list is iterated: the list is any list of up to MaxRecords records, and
\* op.arg.knowledge holds the records the loop has taken from it so far
Snapshots == { [source |-> s, knowledge |-> <<>>] : s \in Sources }

\* a file that is not JSON
InvalidJson == [text |-> "{"]

\* the files restore may be given that are no snapshot: not JSON, or JSON
\* without `source`, or without `knowledge`
MalformedSnapshots ==
    {InvalidJson, [knowledge |-> <<>>]} \cup {[source |-> s] : s \in Sources}

\* RestoreOpen with the deletes of lines 119-121 committed as they are made
RestoreOpenCommitting(committed, file) ==
    IF "text" \in DOMAIN file
    THEN [status |-> "JSONDecodeError", source |-> None,
          view |-> committed, committed |-> committed, wrote |-> FALSE]
    ELSE IF "source" \notin DOMAIN file
    THEN [status |-> "KeyError", source |-> None,
          view |-> committed, committed |-> committed, wrote |-> FALSE]
    ELSE [status |-> "running", source |-> file.source,
          view |-> RestoreDeletes(committed, file.source),
          committed |-> RestoreDeletes(committed, file.source),
          wrote |-> TRUE]

\* restore, lines 109-121: json.load of the file, saved_knowledge['source'],
\* and the deletes of the source's old rows, which are not committed
RestoreOpen(committed, file) ==
    IF "text" \in DOMAIN file
    THEN [status |-> "JSONDecodeError", source |-> None,
          view |-> committed, committed |-> committed, wrote |-> FALSE]
    ELSE IF "source" \notin DOMAIN file
    THEN [status |-> "KeyError", source |-> None,
          view |-> committed, committed |-> committed, wrote |-> FALSE]
    ELSE [status |-> "running", source |-> file.source,
          view |-> RestoreDeletes(committed, file.source),
          committed |-> committed, wrote |-> TRUE]

\* restore, lines 109-121: the snapshot is read, the store opened and the
\* source's old rows deleted
RestoreStart ==
    /\ pc = "idle"
    /\ nops < MaxOps
    /\ \E snapshot \in Snapshots \cup MalformedSnapshots :
        LET o == RestoreOpen(db, snapshot)
        IN /\ op' = [name |-> "restore", source |-> o.source,
                     arg |-> snapshot, save_json |-> FALSE, count |-> 0,
                     wrote |-> o.wrote]
           /\ db' = o.committed
           /\ cur' = o.view
           /\ pc' = IF o.status = "running" THEN "restore" ELSE "done"
           /\ result' = Ended("restore", o.status, 0)
    /\ pre' = db
    /\ prefiles' = files
    /\ nops' = nops + 1
    /\ UNCHANGED <<todo, files, written>>
    /\ UNCHANGED serverVars

\* restore, line 122: saved_knowledge['knowledge'] is looked up, and the
\* snapshot has none
RestoreNoKnowledge ==
    /\ pc = "restore"
    /\ "knowledge" \notin DOMAIN op.arg
    /\ pc' = "done"
    /\ cur' = db
    /\ result' = Ended("restore", "KeyError", op.count)
    /\ UNCHANGED <<db, op, todo, files, pre, prefiles, written, nops>>
    /\ UNCHANGED serverVars

\* restore, lines 122-142: one turn of the loop, for the next record of the
\* list; an exception ends the command, and with it the connection and what
\* it had not committed
RestoreStep ==
    /\ pc = "restore"
    /\ "knowledge" \in DOMAIN op.arg
    /\ Len(op.arg.knowledge) < MaxRecords
    /\ \E knowledge \in SnapshotRecords :
        LET t == RestoreTurn(db, cur, op.source, knowledge)
        IN /\ db' = t.committed
           /\ IF t.ok
              THEN /\ cur' = t.view
                   /\ op' = [op EXCEPT
                               !.count = @ + 1,
                               !.arg.knowledge = Append(@, knowledge)]
                   /\ UNCHANGED <<pc, result>>
              ELSE /\ cur' = t.committed
                   /\ pc' = "done"
                   /\ result' = Ended("restore", t.err, op.count)
                   /\ op' = [op EXCEPT
                               !.arg.knowledge = Append(@, knowledge)]
    /\ UNCHANGED <<todo, files, pre, prefiles, written, nops>>
    /\ UNCHANGED serverVars

\* restore, line 143: the list is at its end, store.db.commit()
RestoreCommit ==
    /\ pc = "restore"
    /\ "knowledge" \in DOMAIN op.arg
    /\ db' = cur
    /\ pc' = "done"
    /\ result' = Ended("restore", "ok", op.count)
    /\ written' = Touch(written, op.source)
    /\ UNCHANGED <<cur, op, todo, files, pre, prefiles, nops>>
    /\ UNCHANGED serverVars

\* the process is interrupted: the connection is lost with what it had not
\* committed, and the command's locals with it
Interrupt ==
    /\ pc \notin {"idle", "done"}
    /\ pc' = "done"
    /\ cur' = db
    /\ todo' = <<>>
    /\ result' = Ended(op.name, "interrupted", 0)
    /\ op' = [NoOp EXCEPT !.name = op.name, !.source = op.source,
                          !.wrote = op.wrote]
    /\ UNCHANGED <<db, files, pre, prefiles, written, nops>>
    /\ UNCHANGED serverVars

\* the process of the ended command exits; the next command starts afresh
Exit ==
    /\ pc = "done"
    /\ pc' = "idle"
    /\ op' = NoOp
    /\ result' = Ended("none", "none", 0)
    /\ pre' = EmptyStore
    /\ prefiles' = NoFiles
    /\ UNCHANGED <<db, cur, todo, files, written, nops>>
    /\ UNCHANGED serverVars

\* load, lines 35-51: the credential is read and the store opened, which
\* resolves the source the remote serves
LoadStart ==
    /\ pc = "idle"
    /\ nops < MaxOps
    /\ \E scicrunch_key \in {None, "key"}, reachable \in BOOLEAN,
          source \in Sources :
        LET o == LoadOpen(db, scicrunch_key, reachable, source)
        IN /\ op' = [name |-> "load", source |-> source,
                     arg |-> [source |-> source, knowledge |-> <<>>],
                     save_json |-> FALSE, count |-> 0,
                     wrote |-> o.wrote]
           /\ db' = o.committed
           /\ cur' = o.committed
           /\ pc' = IF o.status = "running" THEN "load_delete" ELSE "done"
           /\ result' = Ended("load", o.status, 0)
    /\ pre' = db
    /\ prefiles' = files
    /\ todo' = <<>>
    /\ nops' = nops + 1
    /\ UNCHANGED <<files, written>>
    /\ UNCHANGED serverVars

\* load, lines 53-55: the old rows are deleted and the deletion committed
LoadDelete ==
    /\ pc = "load_delete"
    /\ cur' = LoadClean(cur, op.source).view
    /\ db' = LoadClean(cur, op.source).committed
    /\ op' = [op EXCEPT !.wrote = TRUE]
    /\ pc' = "load_paths"
    /\ UNCHANGED <<todo, files, result, pre, prefiles, written, nops>>
    /\ UNCHANGED serverVars

\* load, line 57: store.connectivity_paths(), which asks the remote
LoadPaths ==
    /\ pc = "load_paths"
    /\ \/ \E paths \in PathLists :
            /\ todo' = paths
            /\ pc' = "load_iter"
            /\ UNCHANGED <<cur, result>>
       \/ /\ todo' = <<>>
          /\ pc' = "done"
          /\ cur' = db
          /\ result' = Ended("load", "RemoteError", op.count)
    /\ UNCHANGED <<db, op, files, pre, prefiles, written, nops>>
    /\ UNCHANGED serverVars

\* load, lines 63-66: one turn of the loop; the remote answers or fails
LoadStep ==
    /\ pc = "load_iter"
    /\ todo # <<>>
    /\ \/ \E knowledge \in RemoteKnowledge(Head(todo)) :
            /\ cur' = EntityKnowledge(cur, op.source, Head(todo), knowledge)
            /\ op' = [op EXCEPT
                        !.count = @ + 1,
                        !.arg.knowledge =
                            Append(@, Put(knowledge, "id", Head(todo)))]
            /\ todo' = Tail(todo)
            /\ UNCHANGED <<pc, result>>
       \/ /\ todo' = <<>>
          /\ pc' = "done"
          /\ cur' = db
          /\ result' = Ended("load", "RemoteError", op.count)
          /\ UNCHANGED op
    /\ UNCHANGED <<db, files, pre, prefiles, written, nops>>
    /\ UNCHANGED serverVars

\* load, lines 68-73: store.close() ends the iteration, and args.save_json
\* is looked at
LoadClose ==
    /\ pc = "load_iter"
    /\ todo = <<>>
    /\ \E save_json \in BOOLEAN :
        LET f == LoadFinish(db, cur, save_json)
        IN /\ db' = f.committed
           /\ cur' = f.committed
           /\ op' = [op EXCEPT !.save_json = save_json]
           /\ IF f.extract
              THEN /\ pc' = "load_extract"
                   /\ UNCHANGED result
              ELSE /\ pc' = "done"
                   /\ result' = Ended("load", "ok", op.count)
    /\ written' = Touch(written, op.source)
    /\ UNCHANGED <<todo, files, pre, prefiles, nops>>
    /\ UNCHANGED serverVars

\* load, lines 74-75: extract(args) for the source just loaded
LoadExtract ==
    /\ pc = "load_extract"
    /\ LET o == ExtractOpen(db, op.source)
       IN /\ db' = o.committed
          /\ cur' = o.committed
          /\ IF o.source = None
             THEN /\ result' = Ended("load", "ValueError", op.count)
                  /\ UNCHANGED files
             ELSE \E rows \in SelectKnowledge(o.committed, o.source) :
                     /\ files' = [files EXCEPT ![o.source] =
                           SavedKnowledge(o.committed, o.source, rows)]
                     /\ result' = Ended("load", "ok", op.count)
    /\ pc' = "done"
    /\ UNCHANGED <<op, todo, pre, prefiles, written, nops>>
    /\ UNCHANGED serverVars

\* extract, lines 79-104
Extract ==
    /\ pc = "idle"
    /\ nops < MaxOps
    /\ \E source \in Sources \cup {None} :
        LET o == ExtractOpen(db, source)
            knowledge_source == o.source
        IN /\ op' = [NoOp EXCEPT !.name = "extract",
                                 !.source = knowledge_source,
                                 !.arg.source = source,
                                 !.wrote = o.wrote]
           /\ db' = o.committed
           /\ cur' = o.committed
           /\ IF knowledge_source = None
              THEN /\ result' = Ended("extract", "ValueError", 0)
                   /\ UNCHANGED files
              ELSE \E rows \in SelectKnowledge(o.committed, knowledge_source) :
                      /\ files' = [files EXCEPT ![knowledge_source] =
                            SavedKnowledge(o.committed, knowledge_source,
                                           rows)]
                      /\ result' = Ended("extract", "ok", Len(rows))
    /\ pc' = "done"
    /\ pre' = db
    /\ prefiles' = files
    /\ nops' = nops + 1
    /\ UNCHANGED <<todo, written>>
    /\ UNCHANGED serverVars

\* info, lines 149-156
Info ==
    /\ pc = "idle"
    /\ op' = [NoOp EXCEPT !.name = "info"]
    /\ result' = [Ended("info", "ok", 0) EXCEPT !.out = Printed(db)]
    /\ pc' = "done"
    /\ pre' = db
    /\ prefiles' = files
    /\ cur' = db
    /\ UNCHANGED <<db, todo, files, written, nops>>
    /\ UNCHANGED serverVars

Next ==
    \/ Exit
    \/ LoadStart
    \/ LoadDelete
    \/ LoadPaths
    \/ LoadStep
    \/ LoadClose
    \/ LoadExtract
    \/ Extract
    \/ Info
    \/ RestoreStart
    \/ RestoreNoKnowledge
    \/ RestoreStep
    \/ RestoreCommit
    \/ Interrupt

Spec == Init /\ [][Next]_vars

-----------------------------------------------------------------------------
(* The flatmap server's specification: the map directories are as they are *)
(* found, and requests are answered one after the other.                   *)

FlatmapInit ==
    /\ db = EmptyStore
    /\ cur = EmptyStore
    /\ pc = "idle"
    /\ op = NoOp
    /\ todo = <<>>
    /\ files = NoFiles
    /\ result = Ended("none", "none", 0)
    /\ pre = EmptyStore
    /\ prefiles = NoFiles
    /\ written = <<>>
    /\ nops = 0
    /\ flatmap_root \in [Maps -> MapDirs]
    /\ response = NoResponse

\* GET flatmap/{map_uuid}/
MapIndex ==
    /\ \E map_uuid \in Maps, accepts_svg \in BOOLEAN :
          response' = [endpoint |-> "map_index", map_uuid |-> map_uuid,
                       accepts_svg |-> accepts_svg,
                       sent |-> map_index(flatmap_root, map_uuid,
                                          accepts_svg)]
    /\ UNCHANGED <<flatmap_root, storeVars>>

\* GET flatmap/{map_uuid}/style
MapStyle ==
    /\ \E map_uuid \in Maps :
          response' = [endpoint |-> "map_style", map_uuid |-> map_uuid,
                       accepts_svg |-> FALSE,
                       sent |-> map_style(flatmap_root, map_uuid)]
    /\ UNCHANGED <<flatmap_root, storeVars>>

\* GET flatmap/{map_uuid}/markers
MapMarkers ==
    /\ \E map_uuid \in Maps :
          response' = [endpoint |-> "map_markers", map_uuid |-> map_uuid,
                       accepts_svg |-> FALSE,
                       sent |-> map_markers(flatmap_root, map_uuid)]
    /\ UNCHANGED <<flatmap_root, storeVars>>

\* GET /
ListMaps ==
    /\ \E dirs \in IterDir :
          response' = [endpoint |-> "maps", map_uuid |-> None,
                       accepts_svg |-> FALSE,
                       sent |-> maps(flatmap_root, dirs, <<>>)]
    /\ UNCHANGED <<flatmap_root, storeVars>>

FlatmapNext ==
    \/ ListMaps
    \/ MapIndex
    \/ MapStyle
    \/ MapMarkers

FlatmapSpec == FlatmapInit /\ [][FlatmapNext]_vars

-----------------------------------------------------------------------------
(* Properties. *)

RestoreEnded == pc = "done" /\ result.name = "restore"
LoadEnded    == pc = "done" /\ result.name = "load"

Range(seq) == {seq[i] : i \in 1..Len(seq)}

\* C1: a restore that fails on a malformed record (`connectivity` not a
\* list), after any number of well-formed records, leaves every table of the
\* store as it was before the restore.
C1_RestoreAllOrNothing ==
    (RestoreEnded /\ result.status = "TypeError") => db = pre

\* C1 happens: the malformed record came after a well-formed one, and the
\* source had rows to lose
C1_Witness ==
    /\ RestoreEnded
    /\ result.status = "TypeError"
    /\ result.count >= 1
    /\ KnowledgeOf(pre, op.source) # NoRows

\* C2: during a load the committed store is the store of before the load,
\* until the one commit that follows the iteration; a load the remote fails
\* leaves it so.
C2_LoadOneTransaction ==
    /\ pc \in {"load_delete", "load_paths", "load_iter"} => db = pre
    /\ (LoadEnded /\ result.status = "RemoteError") => db = pre

\* C3: a load that ends for want of the credential (exit 1) or because the
\* remote cannot be reached has executed no delete, insert or commit, and
\* leaves the store as it was.
C3_LoadFailsBeforeMutation ==
    (LoadEnded /\ result.status \in {"exit 1", "RemoteUnavailableError"})
        => (db = pre /\ cur = pre /\ ~op.wrote)

\* C3 happens: the remote was unreachable for a source that had rows
C3_Witness ==
    /\ LoadEnded
    /\ result.status = "RemoteUnavailableError"
    /\ KnowledgeOf(pre, op.source) # NoRows

\* C4: after a load, restoring the extract of the loaded source into an
\* empty store gives the knowledge rows the load left.
C4_RoundTrip ==
    (LoadEnded /\ result.status = "ok")
        => \A rows \in SelectKnowledge(db, op.source) :
              KnowledgeOf(Restored(EmptyStore,
                                   SavedKnowledge(db, op.source, rows)),
                          op.source)
              = KnowledgeOf(db, op.source)

\* C5: the store a restore leaves is the store a second restore of the same
\* snapshot leaves.
C5_RestoreIdempotent ==
    (RestoreEnded /\ result.status # "interrupted")
        => /\ db = Restored(pre, op.arg)
           /\ Restored(db, op.arg) = db

\* C5 happens: a restore of two records succeeded on a store that held rows
C5_Witness ==
    /\ RestoreEnded
    /\ result.status = "ok"
    /\ result.count = 2
    /\ pre.knowledge # NoRows
    /\ db # pre

\* the rows of connectivity_nodes when a node is inserted on its first
\* sighting in the whole snapshot
RECURSIVE FirstSightings(_, _, _)
FirstSightings(records, seen, source) ==
    IF records = <<>> THEN <<>>
    ELSE LET nodes == IF "connectivity" \in DOMAIN Head(records)
                      THEN Flatten(Head(records).connectivity.val)
                      ELSE <<>>
         IN NodeRows(nodes, seen, source, Head(records).id)
            \o FirstSightings(Tail(records),
                              seen \cup {<<n[1], n[2]>> : n \in Range(nodes)},
                              source)

\* C6: after a successful restore connectivity_nodes holds, for the source,
\* one row per distinct node of the snapshot, with the entity that had it
\* first.
C6_NodesOncePerRestore ==
    (RestoreEnded /\ result.status = "ok")
        => NodesOf(db, op.source)
           = BagAddAll(NoRows, FirstSightings(op.arg.knowledge, {}, op.source))

WellFormed(snapshot) ==
    /\ {"source", "knowledge"} \subseteq DOMAIN snapshot
    /\ \A i, j \in 1..Len(snapshot.knowledge) :
          i # j => snapshot.knowledge[i].id # snapshot.knowledge[j].id
    /\ \A k \in Range(snapshot.knowledge) :
          "connectivity" \in DOMAIN k => k.connectivity.type = "list"

RECURSIVE PublicationRows(_, _)
PublicationRows(records, source) ==
    IF records = <<>> THEN <<>>
    ELSE (IF "references" \in DOMAIN Head(records)
          THEN [i \in 1..Len(Head(records).references) |->
                   <<source, Head(records).id, Head(records).references[i]>>]
          ELSE <<>>)
         \o PublicationRows(Tail(records), source)

\* C8: the restore of a well-formed snapshot into an empty store succeeds,
\* with a knowledge row per record, a label per labelled record and a
\* publications row per reference.
C8_RestorePopulates ==
    (RestoreEnded /\ result.status # "interrupted" /\ pre = EmptyStore
       /\ WellFormed(op.arg))
        => /\ result.status = "ok"
           /\ DOMAIN db.knowledge
              = {<<op.source, k.id>> : k \in Range(op.arg.knowledge)}
           /\ {r[1] : r \in DOMAIN db.labels}
              = {k.id : k \in {x \in Range(op.arg.knowledge) :
                                  "label" \in DOMAIN x}}
           /\ db.publications
              = BagAddAll(NoRows, PublicationRows(op.arg.knowledge, op.source))

\* C9: after a successful load or restore of a source, each of its rows in
\* knowledge, connectivity_nodes and publications comes from a record of the
\* new input.
C9_WhollySuperseded ==
    ((LoadEnded \/ RestoreEnded) /\ result.status = "ok")
        => /\ \A r \in DOMAIN KnowledgeOf(db, op.source) :
                 \E k \in Range(op.arg.knowledge) : k.id = r[2]
           /\ \A r \in DOMAIN NodesOf(db, op.source) :
                 \E k \in Range(op.arg.knowledge) :
                    /\ k.id = r[3]
                    /\ "connectivity" \in DOMAIN k
                    /\ \E n \in Range(Flatten(k.connectivity.val)) :
                          Dumps(<<n[1], n[2]>>) = r[2]
           /\ \A r \in DOMAIN PublicationsOf(db, op.source) :
                 \E k \in Range(op.arg.knowledge) :
                    /\ k.id = r[2]
                    /\ "references" \in DOMAIN k
                    /\ r[3] \in Range(k.references)

\* C10: info prints each source that has knowledge rows once, a source
\* written later before a source written earlier.
C10_InfoMostRecentFirst ==
    (pc = "done" /\ result.name = "info")
        => result.out
           = SelectSeq(written, LAMBDA s : KnowledgeOf(db, s) # NoRows)

\* C10 happens: B was written, then A, and info lists A before B
C10_Witness ==
    /\ pc = "done"
    /\ result.name = "info"
    /\ result.out = <<"A", "B">>
    /\ written = <<"A", "B">>

\* no source of the store matches the one asked for (None: the default)
NoMatchingSource(st, source) ==
    IF source = None THEN st.knowledge = NoRows
    ELSE KnowledgeOf(st, source) = NoRows

\* C11: an extract for which the store has no matching source (no source at
\* all, or no row of the source asked for) ends with the no-source error
\* and leaves every snapshot file as it was.
C11_ExtractNoSource ==
    (pc = "done" /\ result.name = "extract"
       /\ NoMatchingSource(pre, op.arg.source))
        => (result.status = "ValueError" /\ files = prefiles)

\* C11 happens: a source without rows was asked for by name, of a store
\* that holds rows of another source
C11_Witness ==
    /\ pc = "done"
    /\ result.name = "extract"
    /\ result.status = "ValueError"
    /\ op.arg.source \in Sources
    /\ pre.knowledge # NoRows

\* a snapshot file has just been written: by extract, or by the extract that
\* ends a load
SnapshotWritten ==
    /\ pc = "done"
    /\ result.status = "ok"
    /\ \/ result.name = "extract"
       \/ result.name = "load" /\ op.save_json

\* C12: the snapshot extract writes for a source names the source and lists,
\* for each knowledge row of the source and for no other row, one record:
\* the row's payload with `id` set to the row's entity, the other fields as
\* stored; what the file held before is gone.
C12_SnapshotContents ==
    SnapshotWritten =>
        LET snapshot == files[op.source]
            rows == DOMAIN KnowledgeOf(db, op.source)
        IN /\ snapshot.source = op.source
           /\ Len(snapshot.knowledge) = Cardinality(rows)
           /\ \A r \in rows :
                 \E i \in 1..Len(snapshot.knowledge) :
                    LET k == snapshot.knowledge[i]
                        payload == Loads(db.knowledge[r])
                    IN /\ "id" \in DOMAIN k
                       /\ k.id = r[2]
                       /\ DOMAIN k = DOMAIN payload \cup {"id"}
                       /\ \A f \in DOMAIN payload \ {"id"} :
                             k[f] = payload[f]

\* C12 happens: the source has two rows, one of them stored without an `id`
\* field, and another source has rows too
C12_Witness ==
    /\ SnapshotWritten
    /\ Cardinality(DOMAIN KnowledgeOf(db, op.source)) = 2
    /\ \E r \in DOMAIN KnowledgeOf(db, op.source) :
          "id" \notin DOMAIN Loads(db.knowledge[r])
    /\ \E r \in DOMAIN db.knowledge : r[1] # op.source

\* C13: a restore of a file that is not JSON, or whose JSON lacks `source`
\* or `knowledge`, ends with an error, and the committed store is then the
\* store of before the restore: no row deleted, none inserted.
C13_MalformedSnapshot ==
    (RestoreEnded /\ result.status # "interrupted"
       /\ ~({"source", "knowledge"} \subseteq DOMAIN op.arg))
        => /\ result.status \in {"JSONDecodeError", "KeyError"}
           /\ db = pre

\* C13 happens: the snapshot names a source that has rows in all three
\* tables, and has no `knowledge`
C13_Witness ==
    /\ RestoreEnded
    /\ result.status = "KeyError"
    /\ "source" \in DOMAIN op.arg
    /\ KnowledgeOf(pre, op.arg.source) # NoRows
    /\ NodesOf(pre, op.arg.source) # NoRows
    /\ op.wrote

\* the two snapshots list the same records, in whatever order
SameRecords(f, g) ==
    /\ f.source = g.source
    /\ Len(f.knowledge) = Len(g.knowledge)
    /\ Range(f.knowledge) = Range(g.knowledge)

LabelsOf(st, entity) == {r[2] : r \in {x \in DOMAIN st.labels : x[1] = entity}}

RECURSIVE Copies(_, _)
Copies(bag, rows) ==
    IF rows = {} THEN 0
    ELSE LET r == CHOOSE x \in rows : TRUE
         IN bag[r] + Copies(bag, rows \ {r})

LabelRows(st, entity) ==
    Copies(st.labels, {x \in DOMAIN st.labels : x[1] = entity})

C16_KnowledgeUnique ==
    /\ \A i, j \in 1..Len(db.rowids) : i # j => db.rowids[i] # db.rowids[j]
    /\ Range(db.rowids) = DOMAIN db.knowledge

\* C16 happens: a restore was given a snapshot that lists an id twice, for a
\* source that had a row of that id
C16_Witness ==
    /\ RestoreEnded
    /\ result.status = "IntegrityError"
    /\ \E i, j \in 1..Len(op.arg.knowledge) :
          /\ i # j
          /\ op.arg.knowledge[i].id = op.arg.knowledge[j].id
          /\ <<op.source, op.arg.knowledge[i].id>> \in DOMAIN pre.knowledge

\* C17: extract and info, however they end, leave the committed store and
\* their connection's view as the store was and execute no writing
\* statement; info leaves every snapshot file as it was, extract every
\* file but the one of the source it resolved.
C17_ReadOnly ==
    (pc = "done" /\ result.name \in {"extract", "info"})
        => /\ db = pre
           /\ cur = pre
           /\ ~op.wrote
           /\ result.name = "info" => files = prefiles
           /\ result.name = "extract" =>
                 \A s \in Sources \ {op.source} : files[s] = prefiles[s]

\* C17 happens: extract wrote the snapshot of a source from a store that
\* holds rows in every table
C17_Witness ==
    /\ pc = "done"
    /\ result.name = "extract"
    /\ result.status = "ok"
    /\ files # prefiles
    /\ pre.publications # NoRows
    /\ pre.connectivity_nodes # NoRows
    /\ pre.labels # NoRows

\* an SVG of the map exists, at <map>/<id>.svg or at <map>/images/<id>.svg
HasSvg(map) ==
    \/ Exists(map, File("", map.index.id, "svg"))
    \/ Exists(map, File("images", map.index.id, "svg"))

\* C18: map_index answers 404 when the map has no index.json; else the
\* content of the map's SVG when the request accepts image/svg+xml and an
\* SVG exists; else the parsed index.json.
C18_MapIndex ==
    response.endpoint = "map_index" =>
        LET map == flatmap_root[response.map_uuid]
            sent == response.sent
        IN IF ~Exists(map, File("", "index", "json"))
           THEN sent.status = 404
           ELSE IF response.accepts_svg /\ HasSvg(map)
           THEN /\ sent.status = 200
                /\ sent.media_type = "image/svg+xml"
                /\ sent.content.kind = "svg"
                /\ sent.content.file.ext = "svg"
                /\ Exists(map, sent.content.file)
           ELSE /\ sent.status = 200
                /\ sent.content.kind = "index"
                /\ sent.content.file = File("", "index", "json")

\* the file an endpoint that answers with a JSON file reads
JsonFileOf(endpoint) ==
    IF endpoint = "map_style" THEN File("", "style", "json")
    ELSE File("", "markers", "json")

\* C21: map_style answers with the parsed content of the map's style.json
\* and map_markers with the parsed content of the map's markers.json,
\* whenever the file exists.
C21_StyleAndMarkers ==
    response.endpoint \in {"map_style", "map_markers"} =>
        LET map == flatmap_root[response.map_uuid]
            path == JsonFileOf(response.endpoint)
        IN Exists(map, path) =>
              /\ response.sent.status = 200
              /\ response.sent.content.kind = "json"
              /\ response.sent.content.file = path

\* a map is being made in the directory
BeingMade(flatmap_dir) == Exists(flatmap_dir, File("", ".map_making", ""))

\* C22: every flatmap of the maps listing comes from an entry of the root
\* that is a directory, has no .map_making sentinel and has index.json and
\* index.mbtiles; when its version is at least 1.3, the directory's name
\* is the metadata's id or the last component of the metadata's uuid.
C22_MapsListing ==
    response.endpoint = "maps" =>
        \A i \in DOMAIN response.sent.listed :
            LET name == response.sent.listed[i].dir
                flatmap_dir == flatmap_root[name]
                metadata == flatmap_dir.metadata
            IN /\ flatmap_dir.is_dir
               /\ ~BeingMade(flatmap_dir)
               /\ File("", "index", "json") \in flatmap_dir.files
               /\ File("", "index", "mbtiles") \in flatmap_dir.files
               /\ flatmap_dir.index.version >= MetadataVersion =>
                     \/ metadata.id = name
                     \/ /\ metadata.uuid # NoUuid
                        /\ metadata.uuid[Len(metadata.uuid)] = name

\* the listing answered with a version 1.3 map, and left out a map that
\* is being made and has index.json and index.mbtiles
C22_Witness ==
    /\ response.endpoint = "maps"
    /\ \E i \in DOMAIN response.sent.listed :
          flatmap_root[response.sent.listed[i].dir].index.version
              >= MetadataVersion
    /\ \E m \in Maps :
          /\ BeingMade(flatmap_root[m])
          /\ flatmap_root[m].is_dir
          /\ File("", "index", "json") \in flatmap_root[m].files
          /\ File("", "index", "mbtiles") \in flatmap_root[m].files
          /\ \A i \in DOMAIN response.sent.listed :
                response.sent.listed[i].dir # m

\* the rows of a source in the three tables that carry a source
RowsOf(st, source) ==
    [knowledge |-> KnowledgeOf(st, source),
     rowids |-> SelectSeq(st.rowids, LAMBDA k : k[1] = source),
     connectivity_nodes |-> NodesOf(st, source),
     publications |-> PublicationsOf(st, source)]

\* C19: while a load or a restore runs, and when it has ended (well, with
\* an error, or interrupted), the rows of every source but its own are, in
\* knowledge, connectivity_nodes and publications, those of before the
\* command.
C19_OtherSourcesUntouched ==
    (pc # "idle" /\ op.name \in {"load", "restore"})
        => \A s \in Sources \ {op.source} :
              /\ RowsOf(db, s) = RowsOf(pre, s)
              /\ RowsOf(cur, s) = RowsOf(pre, s)

\* C19 happens: a load or restore changed the rows of its source in a store
\* where another source has rows in the three tables
C19_Witness ==
    /\ pc = "done"
    /\ op.name \in {"load", "restore"}
    /\ result.status = "ok"
    /\ db # pre
    /\ \E s \in Sources \ {op.source} :
          /\ KnowledgeOf(pre, s) # NoRows
          /\ NodesOf(pre, s) # NoRows
          /\ PublicationsOf(pre, s) # NoRows

\* C20: the extract that a load calls runs when the iteration is over and
\* the store holds, committed, every record the load fetched; it writes the
\* snapshot of the load's source and no other file, with every record of
\* the load; a load without the flag, or one that has not ended well,
\* writes no file.
C20_SnapshotAfterLoad ==
    /\ pc = "load_extract"
        => /\ op.save_json
           /\ todo = <<>>
           /\ cur = db
           /\ files = prefiles
           /\ \A k \in Range(op.arg.knowledge) :
                 /\ <<op.source, k.id>> \in DOMAIN db.knowledge
                 /\ Put(Loads(db.knowledge[<<op.source, k.id>>]), "id", k.id)
                    = k
    /\ (op.name = "load" /\ pc # "idle" /\ files # prefiles)
        => /\ pc = "done"
           /\ result.status = "ok"
           /\ op.save_json
           /\ \A s \in Sources \ {op.source} : files[s] = prefiles[s]
    /\ (LoadEnded /\ result.status = "ok" /\ op.save_json)
        => /\ files[op.source].source = op.source
           /\ Range(files[op.source].knowledge) = Range(op.arg.knowledge)
           /\ Len(files[op.source].knowledge) = Len(op.arg.knowledge)

\* C20 happens: a load with the flag fetched two records for a source that
\* had other rows and an older snapshot, and wrote the new snapshot
C20_Witness ==
    /\ LoadEnded
    /\ result.status = "ok"
    /\ op.save_json
    /\ result.count = 2
    /\ KnowledgeOf(pre, op.source) # NoRows
    /\ prefiles[op.source] # NoFile
    /\ files[op.source] # prefiles[op.source]

=============================================================================
